---- MODULE Spec2Model ----
(***************************************************************************)
(* dapi.rest.client.RESTClient.request: the per-bucket asyncio.Lock table, *)
(* the global asyncio.Event gate, the 5-iteration retry loop and the       *)
(* deferred (call_later) lock release, as a state machine of cooperative   *)
(* tasks.  Code between two awaits runs as one atomic step.  Time is a      *)
(* tick counter behind asyncio.sleep and call_later; a due timer may run   *)
(* late, never early.  `window` and `n429` observe what the server sent    *)
(* and take no part in the client's decisions.                             *)
(*                                                                         *)
(* The pure functions of the package (errors.flatten, Route.bucket,        *)
(* Route.url and the headers and kwargs request hands to the HTTP call)    *)
(* have a specification each: Init draws the argument `arg` from a bounded *)
(* set and one action applies the function, leaving its result in `ret`.   *)
(* SpecFair adds to Spec the fairness of the event loop and the server.    *)
(***************************************************************************)
EXTENDS Integers, Sequences, FiniteSets, TLC

\* ---------------------------------------------------------------- bounds
NumTasks == 2      \* concurrent RESTClient.request calls
MaxDelay == 2      \* largest retry_after / X-Ratelimit-Reset-After, in ticks

\* `for _ in range(5)`
MaxAttempts == 5

Tasks == 1 .. NumTasks

\* ------------------------------------------------------------- values
\* Python values: a str, an int (written by its decimal numeral), a dict (its
\* items in insertion order) or a list
Str(s) == [type |-> "str", s |-> s, items |-> <<>>]
Integer(s) == [type |-> "int", s |-> s, items |-> <<>>]
Item(k, v) == [k |-> k, v |-> v]
Dict(items) == [type |-> "dict", s |-> "", items |-> items]
List(items) == [type |-> "list", s |-> "", items |-> items]

\* str(value) of a str or an int
str(v) == v.s

\* ------------------------------------------------------------- routes
ChannelPath == "/channels/{channel_id}"
MessagePath == "/channels/{channel_id}/messages/{message_id}"

\* the parameter names in use, in the order sorted() puts them
ParamNames == <<"channel_id", "guild_id", "message_id">>

\* faulty variant: the parameters stay in the order of the call
CallOrder(kwargs) == kwargs

\* sorted(params.items()): the items by ascending key (keys are distinct)
Sorted(kwargs) ==
    LET at(name) == CHOOSE i \in 1 .. Len(kwargs) : kwargs[i].k = name
        upto[n \in 0 .. Len(ParamNames)] ==
            IF n = 0 THEN <<>>
            ELSE IF \E i \in 1 .. Len(kwargs) : kwargs[i].k = ParamNames[n]
                 THEN Append(upto[n - 1], kwargs[at(ParamNames[n])])
                 ELSE upto[n - 1]
    IN upto[Len(ParamNames)]

\* Route(method, path, **params)
Route(method, path, kwargs) ==
    [method |-> method, path |-> path, params |-> Sorted(kwargs)]

Routes ==
    {Route("GET", ChannelPath, <<Item("channel_id", Integer("1"))>>),
     Route("DELETE", ChannelPath, <<Item("channel_id", Integer("1"))>>),
     Route("GET", ChannelPath, <<Item("channel_id", Integer("2"))>>)}

RECURSIVE Join(_)
\* ":".join(values)
Join(values) ==
    IF values = <<>> THEN ""
    ELSE IF Len(values) = 1 THEN Head(values)
    ELSE Head(values) \o ":" \o Join(Tail(values))

\* map(str, self.params.values())
Values(route) == [i \in 1 .. Len(route.params) |-> str(route.params[i].v)]

\* Route.bucket
Bucket(route) == Join(Values(route)) \o ":" \o route.path

NoBucket == ""
Delays == 1 .. MaxDelay

\* ------------------------------------------------------- response values
\* A response body as text.  kind "raw" is text json.loads rejects; kind
\* "json" is the text of a JSON object with the listed keys.
RawText == [kind |-> "raw", global |-> "absent", has_retry_after |-> FALSE, retry_after |-> 0]
JsonPlain == [kind |-> "json", global |-> "absent", has_retry_after |-> FALSE, retry_after |-> 0]
NoText == [kind |-> "none", global |-> "absent", has_retry_after |-> FALSE, retry_after |-> 0]

RateLimitText(g, d) == [kind |-> "json", global |-> g, has_retry_after |-> TRUE, retry_after |-> d]

RateLimitTexts == {RateLimitText(g, d) : g \in {"true", "false"}, d \in Delays}

\* no decoded payload (a failed decode; a call that is not handling a 429)
NoPayload == [ok |-> FALSE, global |-> "absent", has_retry_after |-> FALSE, retry_after |-> 0]

\* jsonlib.loads(text): fails with JSONDecodeError on text that is not JSON,
\* otherwise yields the decoded mapping.
loads(text) ==
    IF text.kind = "json"
    THEN [ok |-> TRUE, global |-> text.global,
          has_retry_after |-> text.has_retry_after, retry_after |-> text.retry_after]
    ELSE NoPayload

\* faulty variant: any "global" key counts, whatever its value
GetGlobalIfPresent(data) == data.global # "absent"

\* data.get("global", False), as a truth value
GetGlobal(data) == data.global = "true"

\* A header value: absent (None) or the text of a number of seconds.
NoHeader == [present |-> FALSE, secs |-> 0]
HeaderSecs(d) == [present |-> TRUE, secs |-> d]

\* float(response.headers.get("X-Ratelimit-Reset-After")): TypeError on None.
ToFloat(h) == [ok |-> h.present, value |-> h.secs]

\* The responses the server may give: a 429 with a rate-limit payload, with
\* a JSON body of another shape or with a body that is not JSON; any other
\* status with or without an exhausted bucket reported in its headers.
Responses ==
    {[status |-> 429, text |-> x, remaining |-> "1", reset_after |-> NoHeader] :
        x \in RateLimitTexts \cup {RawText, JsonPlain}}
    \cup
    {[status |-> 200, text |-> JsonPlain, remaining |-> h[1], reset_after |-> h[2]] :
        h \in {<<"1", NoHeader>>, <<"0", NoHeader>>} \cup {<<"0", HeaderSecs(d)>> : d \in Delays}}
    \cup
    {[status |-> 404, text |-> x, remaining |-> h[1], reset_after |-> h[2]] :
        x \in {RawText, JsonPlain},
        h \in {<<"1", NoHeader>>, <<"0", NoHeader>>} \cup {<<"0", HeaderSecs(d)>> : d \in Delays}}

\* ------------------------------------------------------------- outcomes
NoData == [decoded |-> FALSE, text |-> NoText]
NoOutcome == [kind |-> "none", code |-> 0, data |-> NoData]

\* Response(response.status, data=text, ...)
ResponseOf(r) == [kind |-> "Response", code |-> r.status, data |-> [decoded |-> FALSE, text |-> r.text]]

\* HTTPException(code, data)
HTTPException(code, data) == [kind |-> "HTTPException", code |-> code, data |-> data]

\* try: data = jsonlib.loads(text) / except JSONDecodeError: data = text
DecodedOrRaw(text) == [decoded |-> loads(text).ok, text |-> text]

TooManyRetries == [kind |-> "TooManyRetries", code |-> 0, data |-> NoData]
TypeError == [kind |-> "TypeError", code |-> 0, data |-> NoData]
KeyError == [kind |-> "KeyError", code |-> 0, data |-> NoData]
CancelledError == [kind |-> "CancelledError", code |-> 0, data |-> NoData]

\* 200 <= response.status < 300
IsSuccess(status) == 200 <= status /\ status < 300

\* ---------------------------------------------------------------- state
VARIABLES
    pc,                \* where each call is suspended
    bucket,            \* route.bucket of each call ("" before the call starts)
    attempts,          \* HTTP requests the call has issued (loop iterations)
    data,              \* the decoded 429 payload the call is sleeping on
    sleepLeft,         \* ticks left of the call's asyncio.sleep
    outcome,           \* what the call returned or raised
    buckets,           \* self.buckets: bucket key -> asyncio.Lock
    global_ratelimit,  \* self.global_ratelimit: the asyncio.Event's flag
    timers,            \* call_later(reset_after, lock.release), per scheduling call
    releaseError,      \* lock.release() was called on an unlocked lock (RuntimeError)
    window,            \* observer: ticks left of the wait the server last reported to the call
    n429,              \* observer: rate-limit 429 responses the running call has received
    arg,               \* the argument of a call of a pure function (flatten, Route, request's kwargs)
    ret                \* what that call returned or raised

\* the state of a RESTClient and of the request() calls on it
client == <<pc, bucket, attempts, data, sleepLeft, outcome, buckets,
            global_ratelimit, timers, releaseError, window, n429>>

vars == <<pc, bucket, attempts, data, sleepLeft, outcome, buckets,
          global_ratelimit, timers, releaseError, window, n429, arg, ret>>

NoTimer == 0 - 1

\* asyncio.Lock(): unlocked, no waiters
NewLock == [locked |-> FALSE, waiters |-> <<>>]

\* no pure function is being called
NoArg == [fn |-> "none"]
NotRun == [done |-> FALSE]

\* __attrs_post_init__: empty lock table, asyncio.Event() (flag unset)
ClientInit ==
    /\ pc = [t \in Tasks |-> "idle"]
    /\ bucket = [t \in Tasks |-> NoBucket]
    /\ attempts = [t \in Tasks |-> 0]
    /\ data = [t \in Tasks |-> NoPayload]
    /\ sleepLeft = [t \in Tasks |-> 0]
    /\ outcome = [t \in Tasks |-> NoOutcome]
    /\ buckets = [k \in {} |-> NewLock]
    /\ global_ratelimit = FALSE
    /\ timers = [t \in Tasks |-> NoTimer]
    /\ releaseError = FALSE
    /\ window = [t \in Tasks |-> 0]
    /\ n429 = [t \in Tasks |-> 0]

Init == ClientInit /\ arg = NoArg /\ ret = NotRun

\* ---------------------------------------------------------- primitives
\* faulty variant: a new lock is stored for the key on every call
AlwaysCreate(table, b) ==
    [k \in DOMAIN table \cup {b} |-> IF k = b THEN NewLock ELSE table[k]]

\* if route.bucket not in self.buckets: self.buckets[route.bucket] = asyncio.Lock()
LookupOrCreate(table, b) ==
    IF b \in DOMAIN table
    THEN table
    ELSE [k \in DOMAIN table \cup {b} |-> IF k = b THEN NewLock ELSE table[k]]

\* faulty variant: the call goes ahead without waiting for the lock
CanAcquireUnlocked(lock) == TRUE

\* lock.acquire() returns without suspending: the lock is free and nobody queues
CanAcquire(lock) == ~lock.locked /\ lock.waiters = <<>>

\* lock.release(): the lock becomes free; its first waiter is woken and takes
\* it when it next runs (LockResume)
Release(table, b) == [table EXCEPT ![b].locked = FALSE]

\* lock.release() raises RuntimeError on a lock that is not held
ReleaseFails(table, b) == ~table[b].locked

\* self.global_ratelimit.wait(): returns at once when the flag is set
GatePasses(flag) == flag

\* self.global_ratelimit.set(): every call suspended in wait() is woken
WakeGateWaiters(p) == [t \in Tasks |-> IF p[t] = "wait_global" THEN "gate_woken" ELSE p[t]]

\* The calls that hold bucket lock b: past `await lock.acquire()`, not yet done
Holders(b) ==
    {t \in Tasks : bucket[t] = b /\ pc[t] \in {"wait_global", "gate_woken", "in_flight", "sleep"}}

\* ------------------------------------------------------------- actions
\* The client never sets its event before the first wait (Init leaves the
\* flag unset).  The owner of the client may set the public attribute
\* global_ratelimit itself, before it makes any call.
SetGlobalRatelimit ==
    /\ ~global_ratelimit
    /\ \A t \in Tasks : pc[t] = "idle"
    /\ global_ratelimit' = TRUE
    /\ UNCHANGED <<pc, bucket, attempts, data, sleepLeft, outcome, buckets,
                   timers, releaseError, window, n429>>
    /\ UNCHANGED <<arg, ret>>

\* request() up to its first suspension: lock lookup, acquire, gate wait and,
\* when neither suspends, the first session.request
Request(t, route) ==
    /\ pc[t] = "idle"
    /\ bucket' = [bucket EXCEPT ![t] = Bucket(route)]
    /\ LET b == Bucket(route)
           table == LookupOrCreate(buckets, b)
       IN IF CanAcquire(table[b])
          THEN /\ buckets' = [table EXCEPT ![b].locked = TRUE]
               /\ IF GatePasses(global_ratelimit)
                  THEN /\ pc' = [pc EXCEPT ![t] = "in_flight"]
                       /\ attempts' = [attempts EXCEPT ![t] = 1]
                  ELSE /\ pc' = [pc EXCEPT ![t] = "wait_global"]
                       /\ UNCHANGED attempts
          ELSE /\ buckets' = [table EXCEPT ![b].waiters = Append(@, t)]
               /\ pc' = [pc EXCEPT ![t] = "wait_lock"]
               /\ UNCHANGED attempts
    /\ UNCHANGED <<data, sleepLeft, outcome, global_ratelimit, timers, releaseError,
                   window, n429>>
    /\ UNCHANGED <<arg, ret>>

\* `await lock.acquire()` resumes: the woken first waiter takes the free lock,
\* then waits on the gate or issues its first request
LockResume(t) ==
    /\ pc[t] = "wait_lock"
    /\ LET lock == buckets[bucket[t]]
       IN /\ ~lock.locked
          /\ lock.waiters # <<>>
          /\ Head(lock.waiters) = t
    /\ buckets' = [buckets EXCEPT ![bucket[t]] = [locked |-> TRUE, waiters |-> Tail(@.waiters)]]
    /\ IF GatePasses(global_ratelimit)
       THEN /\ pc' = [pc EXCEPT ![t] = "in_flight"]
            /\ attempts' = [attempts EXCEPT ![t] = 1]
       ELSE /\ pc' = [pc EXCEPT ![t] = "wait_global"]
            /\ UNCHANGED attempts
    /\ UNCHANGED <<bucket, data, sleepLeft, outcome, global_ratelimit, timers, releaseError,
                   window, n429>>
    /\ UNCHANGED <<arg, ret>>

\* `await self.global_ratelimit.wait()` resumes after a set(): first request
GateResume(t) ==
    /\ pc[t] = "gate_woken"
    /\ pc' = [pc EXCEPT ![t] = "in_flight"]
    /\ attempts' = [attempts EXCEPT ![t] = 1]
    /\ UNCHANGED <<bucket, data, sleepLeft, outcome, buckets, global_ratelimit,
                   timers, releaseError, window, n429>>
    /\ UNCHANGED <<arg, ret>>

\* faulty variant: the header is compared with the number 0, which no header text equals
IsExhaustedAsNumber(r) == FALSE

\* if ratelimit_remaining == "0"
IsExhausted(r) == r.remaining = "0"

\* lines 166-179: a Response for a 2xx status, else HTTPException with the
\* body decoded when it decodes and the raw text otherwise
FinalOutcome(r) ==
    IF IsSuccess(r.status)
    THEN ResponseOf(r)
    ELSE HTTPException(r.status, DecodedOrRaw(r.text))

\* faulty variant: the undecodable-429 path raises without releasing the lock
On429UndecodableKeepsLock(r) ==
    [next |-> "done", outcome |-> HTTPException(r.status, [decoded |-> FALSE, text |-> r.text]),
     release |-> "none", delay |-> 0, clear |-> FALSE, sleep |-> 0, data |-> NoPayload]

\* 429 whose body json.loads rejects: lock.release(), raise HTTPException(status, text)
On429Undecodable(r) ==
    [next |-> "done", outcome |-> HTTPException(r.status, [decoded |-> FALSE, text |-> r.text]),
     release |-> "now", delay |-> 0, clear |-> FALSE, sleep |-> 0, data |-> NoPayload]

\* faulty variant: the lock is released before the call sleeps
On429DecodedReleases(d) ==
    IF d.has_retry_after
    THEN [next |-> "sleep", outcome |-> NoOutcome, release |-> "now", delay |-> 0,
          clear |-> GetGlobal(d), sleep |-> d.retry_after, data |-> d]
    ELSE [next |-> "done", outcome |-> KeyError, release |-> "none", delay |-> 0,
          clear |-> GetGlobal(d), sleep |-> 0, data |-> NoPayload]

\* faulty variant: only a global limit is slept on
SleepForGlobalOnly(d) == IF GetGlobal(d) THEN d.retry_after ELSE 0

\* the argument of asyncio.sleep: data["retry_after"]
SleepFor(d) == d.retry_after

\* 429 with a decoded body: clear the gate when global, then
\* asyncio.sleep(data["retry_after"]) (KeyError when the key is missing)
On429Decoded(d) ==
    IF d.has_retry_after
    THEN [next |-> "sleep", outcome |-> NoOutcome, release |-> "none", delay |-> 0,
          clear |-> GetGlobal(d), sleep |-> SleepFor(d), data |-> d]
    ELSE [next |-> "done", outcome |-> KeyError, release |-> "none", delay |-> 0,
          clear |-> GetGlobal(d), sleep |-> 0, data |-> NoPayload]

\* lines 155-164: deferred release when the bucket is exhausted, else
\* immediate release; then the terminal outcome
OnOther(r) ==
    IF IsExhausted(r)
    THEN LET reset_after == ToFloat(r.reset_after)
         IN IF reset_after.ok
            THEN [next |-> "done", outcome |-> FinalOutcome(r), release |-> "later",
                  delay |-> reset_after.value, clear |-> FALSE, sleep |-> 0, data |-> NoPayload]
            ELSE [next |-> "done", outcome |-> TypeError, release |-> "none",
                  delay |-> 0, clear |-> FALSE, sleep |-> 0, data |-> NoPayload]
    ELSE [next |-> "done", outcome |-> FinalOutcome(r), release |-> "now",
          delay |-> 0, clear |-> FALSE, sleep |-> 0, data |-> NoPayload]

\* what the body of `async with self.session.request(...)` does with response r
Handle(r) ==
    IF r.status = 429
    THEN LET d == loads(r.text)
         IN IF d.ok THEN On429Decoded(d) ELSE On429Undecodable(r)
    ELSE OnOther(r)

\* the loop counter of a call in state p: the frame, and the counter with
\* it, is gone once the call has returned or raised
Counter(p, n) == IF p = "done" THEN 0 ELSE n

\* r is a 429 carrying the rate-limit payload {global?, retry_after}
IsRateLimit(r) == r.status = 429 /\ r.text.kind = "json" /\ r.text.has_retry_after

\* the wait response r asks for: retry_after of a rate-limit 429, Reset-After
\* of a response that reports the bucket exhausted, else none
Reported(r) ==
    IF IsRateLimit(r) THEN r.text.retry_after
    ELSE IF r.status # 429 /\ r.remaining = "0" /\ r.reset_after.present THEN r.reset_after.secs
    ELSE 0

\* faulty variant: lock.release() runs after the if, not in its else branch
ReleasesAlways(e) == e.release \in {"now", "later"}

\* the handling reaches a lock.release() call (line 143 or the else at 163-164)
ReleasesNow(e) == e.release = "now"

\* The response arrives and its body is read; the call handles it up to its
\* next suspension (the 429 sleep) or its end.
Receive(t, r) ==
    /\ pc[t] = "in_flight"
    /\ LET e == Handle(r)
       IN /\ data' = [data EXCEPT ![t] = e.data]
          /\ pc' = [pc EXCEPT ![t] = e.next]
          /\ attempts' = [attempts EXCEPT ![t] = Counter(e.next, @)]
          /\ outcome' = [outcome EXCEPT ![t] = e.outcome]
          /\ sleepLeft' = [sleepLeft EXCEPT ![t] = e.sleep]
          /\ global_ratelimit' = IF e.clear THEN FALSE ELSE global_ratelimit
          /\ buckets' = IF ReleasesNow(e) THEN Release(buckets, bucket[t]) ELSE buckets
          /\ releaseError' =
                (releaseError \/ (ReleasesNow(e) /\ ReleaseFails(buckets, bucket[t])))
          /\ timers' = IF e.release = "later" THEN [timers EXCEPT ![t] = e.delay] ELSE timers
          /\ n429' = [n429 EXCEPT ![t] = IF e.next = "done" THEN 0
                                         ELSE IF IsRateLimit(r) THEN @ + 1 ELSE @]
    /\ window' = [window EXCEPT ![t] = Reported(r)]
    /\ UNCHANGED bucket
    /\ UNCHANGED <<arg, ret>>

\* faulty variant: the loop runs one iteration too many
HasBudgetOffByOne(n) == n <= MaxAttempts

\* the `for _ in range(5)` loop has another iteration
HasBudget(n) == n < MaxAttempts

\* asyncio.sleep returns: set the gate when the 429 was global, `continue`:
\* the next session.request, or TooManyRetries when the loop is exhausted
SleepDone(t) ==
    /\ pc[t] = "sleep"
    /\ sleepLeft[t] = 0
    /\ LET g == GetGlobal(data[t])
           woken == IF g THEN WakeGateWaiters(pc) ELSE pc
       IN /\ global_ratelimit' = IF g THEN TRUE ELSE global_ratelimit
          /\ IF HasBudget(attempts[t])
             THEN /\ pc' = [woken EXCEPT ![t] = "in_flight"]
                  /\ attempts' = [attempts EXCEPT ![t] = @ + 1]
                  /\ UNCHANGED outcome
             ELSE /\ pc' = [woken EXCEPT ![t] = "done"]
                  /\ attempts' = [attempts EXCEPT ![t] = Counter("done", @)]
                  /\ outcome' = [outcome EXCEPT ![t] = TooManyRetries]
    /\ data' = [data EXCEPT ![t] = NoPayload]
    /\ n429' = [n429 EXCEPT ![t] = IF HasBudget(attempts[t]) THEN @ ELSE 0]
    /\ UNCHANGED <<bucket, sleepLeft, buckets, timers, releaseError, window>>
    /\ UNCHANGED <<arg, ret>>

\* the call_later callback runs: lock.release()
TimerFire(t) ==
    /\ timers[t] = 0
    /\ timers' = [timers EXCEPT ![t] = NoTimer]
    /\ buckets' = Release(buckets, bucket[t])
    /\ releaseError' = (releaseError \/ ReleaseFails(buckets, bucket[t]))
    /\ UNCHANGED <<pc, bucket, attempts, data, sleepLeft, outcome, global_ratelimit,
                   window, n429>>
    /\ UNCHANGED <<arg, ret>>

\* one unit of the event loop's clock passes
Tick ==
    /\ \E t \in Tasks : (pc[t] = "sleep" /\ sleepLeft[t] > 0) \/ timers[t] > 0 \/ window[t] > 0
    /\ sleepLeft' = [t \in Tasks |-> IF sleepLeft[t] > 0 THEN sleepLeft[t] - 1 ELSE 0]
    /\ timers' = [t \in Tasks |-> IF timers[t] > 0 THEN timers[t] - 1 ELSE timers[t]]
    /\ window' = [t \in Tasks |-> IF window[t] > 0 THEN window[t] - 1 ELSE 0]
    /\ UNCHANGED <<pc, bucket, attempts, data, outcome, buckets, global_ratelimit,
                   releaseError, n429>>
    /\ UNCHANGED <<arg, ret>>

\* the caller cancels the call while it is suspended holding its lock:
\* CancelledError is raised at the await (no try/finally in request)
Cancel(t) ==
    /\ pc[t] \in {"wait_global", "gate_woken", "in_flight", "sleep"}
    /\ pc' = [pc EXCEPT ![t] = "done"]
    /\ attempts' = [attempts EXCEPT ![t] = Counter("done", @)]
    /\ outcome' = [outcome EXCEPT ![t] = CancelledError]
    /\ sleepLeft' = [sleepLeft EXCEPT ![t] = 0]
    /\ data' = [data EXCEPT ![t] = NoPayload]
    /\ n429' = [n429 EXCEPT ![t] = 0]
    /\ UNCHANGED <<bucket, buckets, global_ratelimit, timers, releaseError, window>>
    /\ UNCHANGED <<arg, ret>>

Next ==
    \/ SetGlobalRatelimit
    \/ \E t \in Tasks, route \in Routes : Request(t, route)
    \/ \E t \in Tasks : LockResume(t)
    \/ \E t \in Tasks : GateResume(t)
    \/ \E t \in Tasks, r \in Responses : Receive(t, r)
    \/ \E t \in Tasks : SleepDone(t)
    \/ \E t \in Tasks : TimerFire(t)
    \/ Tick

Spec == Init /\ [][Next]_vars

\* The event loop runs every task that is ready and every timer that is
\* due, its clock advances, and the server answers every request.  Nothing
\* obliges the owner of the client to set the gate or to start a call.
Fairness ==
    /\ \A t \in Tasks : WF_vars(LockResume(t))
    /\ \A t \in Tasks : WF_vars(GateResume(t))
    /\ \A t \in Tasks : WF_vars(\E r \in Responses : Receive(t, r))
    /\ \A t \in Tasks : WF_vars(SleepDone(t))
    /\ \A t \in Tasks : WF_vars(TimerFire(t))
    /\ WF_vars(Tick)

SpecFair == Init /\ [][Next]_vars /\ Fairness

NextCancel == Next \/ \E t \in Tasks : Cancel(t)

SpecCancel == Init /\ [][NextCancel]_vars

\* ------------------------------------------------- errors.flatten
\* largest number of entries of one `_errors` array
MaxErrors == 2

\* one entry of an `_errors` array
ErrorEntry(message, code) ==
    Dict(<<Item("message", Str(message)), Item("code", Str(code))>>)

ErrorEntries == {ErrorEntry("too long", "LEN"), ErrorEntry("bad url", "URL")}

\* the `_errors` arrays: up to MaxErrors entries, repeats allowed
ErrorArrays == UNION {[1 .. n -> ErrorEntries] : n \in 0 .. MaxErrors}

\* the `_errors` arrays of at most one entry
ShortArrays == {a \in ErrorArrays : Len(a) <= 1}

\* a dict holding only `_errors`
ErrorLeaf(a) == Dict(<<Item("_errors", List(a))>>)

\* the elements of a list field: a dict that carries errors itself or in a
\* field of its own
ErrorElems ==
    {ErrorLeaf(a) : a \in ShortArrays}
    \cup {Dict(<<Item("url", ErrorLeaf(a))>>) : a \in ShortArrays}

EmbedLists ==
    {List(<<e>>) : e \in ErrorElems}
    \cup {List(<<ErrorLeaf(a), Dict(<<Item("url", ErrorLeaf(b))>>)>>) :
            a \in ShortArrays, b \in ShortArrays}

\* the error payloads flatten is applied to: a dict that may carry its own
\* `_errors` (before or after its other keys), a field with errors, and a
\* list field of elements with errors
Payloads ==
    LET own == {<<>>} \cup {<<Item("_errors", List(a))>> : a \in ShortArrays}
        user == {<<>>} \cup {<<Item("username", ErrorLeaf(a))>> : a \in ErrorArrays}
        emb == {<<>>} \cup {<<Item("embeds", l)>> : l \in EmbedLists}
    IN {Dict(o \o u \o e) : o \in own, u \in user, e \in emb}
       \cup {Dict(u \o e \o o) : o \in own, u \in user, e \in emb}

\* ItemsList.items(): (str(n), item) for n, item in enumerate(self)
ItemsList(l) ==
    Dict([n \in 1 .. Len(l.items) |-> Item(ToString(n - 1), l.items[n])])

\* item[key] of a dict
GetItem(d, key) == d.items[CHOOSE i \in 1 .. Len(d.items) : d.items[i].k = key].v

\* faulty variant: the accumulated path is used as it is
WholePath(path) == path

\* path[1:]
DropFirst(path) == SubSeq(path, 2, Len(path))

\* for item in v: items.append((path[1:], (item["message"], item["code"])))
AppendErrors(v, path) ==
    [n \in 1 .. Len(v.items) |->
        <<DropFirst(path), <<GetItem(v.items[n], "message").s, GetItem(v.items[n], "code").s>>>>]

RECURSIVE flatten(_, _), FlattenLoop(_, _)
\* the body of `for k, v in d.items()`, for the items left
FlattenLoop(its, path) ==
    IF its = <<>> THEN <<>>
    ELSE LET k == Head(its).k
             v == Head(its).v
             errors == IF k = "_errors" THEN AppendErrors(v, path) ELSE <<>>
             nested == IF v.type = "dict" THEN flatten(v, path \o ":" \o k)
                       ELSE IF v.type = "list" THEN flatten(ItemsList(v), path \o ":" \o k)
                       ELSE <<>>
         IN errors \o nested \o FlattenLoop(Tail(its), path)

\* flatten(d, path)
flatten(d, path) == FlattenLoop(d.items, path)

FlattenInit ==
    /\ ClientInit
    /\ arg \in {[fn |-> "flatten", d |-> p] : p \in Payloads}
    /\ ret = NotRun

\* flatten(d): path is None, so path = ""
Flatten ==
    /\ arg.fn = "flatten"
    /\ ~ret.done
    /\ ret' = [done |-> TRUE, value |-> flatten(arg.d, "")]
    /\ UNCHANGED arg
    /\ UNCHANGED client

FlattenSpec == FlattenInit /\ [][Flatten]_vars

\* ------------------------------------------------------ Route.url
BASE_URL == "https://discord.com/api/v10"

GatewayPath == "/gateway/bot"

RECURSIVE Before(_, _), After(_, _)
\* the text before the first `ch` of text, and the text after it
Before(text, ch) ==
    IF Len(text) = 0 \/ Head(text) = ch THEN ""
    ELSE Head(text) \o Before(Tail(text), ch)

After(text, ch) ==
    IF Len(text) = 0 THEN ""
    ELSE IF Head(text) = ch THEN Tail(text)
    ELSE After(Tail(text), ch)

\* faulty variant: a field without a parameter is left in the text as it is
GetValueOrKeep(params, name) ==
    IF \E i \in 1 .. Len(params) : params[i].k = name
    THEN [ok |-> TRUE,
          value |-> str(params[CHOOSE i \in 1 .. Len(params) : params[i].k = name].v)]
    ELSE [ok |-> TRUE, value |-> "{" \o name \o "}"]

\* the replacement of the field {name}: format(params[name], ""), KeyError
\* when params has no such key
GetValue(params, name) ==
    IF \E i \in 1 .. Len(params) : params[i].k = name
    THEN [ok |-> TRUE,
          value |-> str(params[CHOOSE i \in 1 .. Len(params) : params[i].k = name].v)]
    ELSE [ok |-> FALSE, value |-> ""]

RECURSIVE format_map(_, _)
\* str.format_map(params) of a template of literal text and {name} fields
format_map(text, params) ==
    IF Len(text) = 0 THEN [ok |-> TRUE, value |-> ""]
    ELSE IF Head(text) = "{"
    THEN LET field == GetValue(params, Before(Tail(text), "}"))
             rest == format_map(After(text, "}"), params)
         IN IF field.ok /\ rest.ok
            THEN [ok |-> TRUE, value |-> field.value \o rest.value]
            ELSE [ok |-> FALSE, value |-> ""]
    ELSE LET rest == format_map(Tail(text), params)
         IN IF rest.ok THEN [ok |-> TRUE, value |-> Head(text) \o rest.value]
            ELSE [ok |-> FALSE, value |-> ""]

\* Route.url
url(route) ==
    LET path == format_map(route.path, route.params)
    IN IF path.ok THEN [ok |-> TRUE, value |-> BASE_URL \o path.value]
       ELSE [ok |-> FALSE, value |-> "KeyError"]

\* the keyword arguments of Route(...): each name left out or given a value
UrlValues == {Integer("1"), Str("2"), Integer("3")}

UrlKwargs ==
    LET opt(name) == {<<>>} \cup {<<Item(name, v)>> : v \in UrlValues}
    IN {m \o g \o c : m \in opt("message_id"), g \in opt("guild_id"), c \in opt("channel_id")}

UrlInit ==
    /\ ClientInit
    /\ arg \in {[fn |-> "url", route |-> Route("GET", p, k)] :
                   p \in {GatewayPath, ChannelPath, MessagePath}, k \in UrlKwargs}
    /\ ret = NotRun

\* route.url
Url ==
    /\ arg.fn = "url"
    /\ ~ret.done
    /\ ret' = [done |-> TRUE, url |-> url(arg.route)]
    /\ UNCHANGED arg
    /\ UNCHANGED client

UrlSpec == UrlInit /\ [][Url]_vars

\* --------------------------------------------------- Route.bucket
\* parameter values: ints and strs, two of which read the same as text, and
\* strs that hold the separator
ParamValues == {Integer("1"), Str("1"), Integer("2"), Integer("3"), Str("1:2"), Str("2:3")}

\* the routes built on the two templates, keyword arguments in either order
RouteInputs ==
    {Route("GET", ChannelPath, <<Item("channel_id", c)>>) : c \in ParamValues}
    \cup {Route("GET", MessagePath, <<Item("channel_id", c), Item("message_id", m)>>) :
            c \in ParamValues, m \in ParamValues}
    \cup {Route("GET", MessagePath, <<Item("message_id", m), Item("channel_id", c)>>) :
            c \in ParamValues, m \in ParamValues}

BucketInit ==
    /\ ClientInit
    /\ arg \in {[fn |-> "bucket", a |-> a, b |-> b] : a \in RouteInputs, b \in RouteInputs}
    /\ ret = NotRun

\* route.bucket of two routes
BucketOf ==
    /\ arg.fn = "bucket"
    /\ ~ret.done
    /\ ret' = [done |-> TRUE, a |-> Bucket(arg.a), b |-> Bucket(arg.b)]
    /\ UNCHANGED arg
    /\ UNCHANGED client

BucketSpec == BucketInit /\ [][BucketOf]_vars

\* ------------------------------------- request: headers and kwargs
None == [type |-> "none", s |-> "", items |-> <<>>]

\* a dict as a mapping: d[key] = value
Put(d, key, value) ==
    [x \in DOMAIN d \cup {key} |-> IF x = key THEN value ELSE d[x]]

RECURSIVE DumpItems(_)
\* the members of a JSON object with str values, as text
DumpItems(items) ==
    IF items = <<>> THEN ""
    ELSE "\"" \o Head(items).k \o "\": \"" \o Head(items).v.s \o "\""
         \o (IF Len(items) = 1 THEN "" ELSE ", " \o DumpItems(Tail(items)))

\* jsonlib.dumps(json)
dumps(json) == "{" \o DumpItems(json.items) \o "}"

\* JSONBuilder(**kwargs) and JSONBuilder.build (a deep copy of inner)
JSONBuilder(inner) == [type |-> "JSONBuilder", inner |-> inner]
JsonBuild(json) == json.inner

\* ParamsBuilder(**kwargs) and ParamsBuilder.build (a copy of inner)
ParamsBuilder(inner) == [type |-> "ParamsBuilder", inner |-> inner]
ParamsBuild(params) == params.inner

\* FormBuilder(), add_field (content_type None reads application/octet-stream),
\* add_json and build
FormBuilder == [type |-> "FormBuilder", fields |-> <<>>]

add_field(form, name, value, content_type) ==
    [form EXCEPT !.fields =
        Append(@, [name |-> name, value |-> value,
                   content_type |-> IF content_type = "" THEN "application/octet-stream"
                                    ELSE content_type])]

add_json(form, json) == add_field(form, "payload_json", dumps(json), "application/json")

FormBuild(form) == [type |-> "FormData", fields |-> form.fields]

\* self.token, self.user_agent
Token == "token"
USER_AGENT == "DiscordBot"

\* the arguments request is called with
JsonArgs ==
    {None,
     JSONBuilder(Dict(<<Item("content", Str("hi"))>>)),
     JSONBuilder(Dict(<<Item("content", Str("hi")), Item("nonce", Str("1"))>>))}

FormArgs ==
    LET file == add_field(FormBuilder, "file", "bytes", "")
    IN {None, FormBuilder, file}
       \cup {add_json(file, JsonBuild(j)) : j \in JsonArgs \ {None}}

ParamsArgs == {None, ParamsBuilder(Put(<<>>, "limit", "10"))}

ReasonArgs == {None, Str("cleanup")}

HeaderArgs == {None, [type |-> "dict", d |-> Put(<<>>, "Content-Type", "text/plain")]}

\* lines 100-115
Headers(a) ==
    LET given == IF a.headers.type # "none" THEN a.headers.d ELSE <<>>
        auth == Put(Put(given, "Authorization", "Bot " \o Token), "User-Agent", USER_AGENT)
        typed == IF a.form.type # "none" THEN Put(auth, "Content-Type", "multipart/form-data")
                 ELSE IF a.json.type # "none" THEN Put(auth, "Content-Type", "application/json")
                 ELSE auth
    IN IF a.reason.type # "none" THEN Put(typed, "X-Audit-Log-Reason", a.reason.s) ELSE typed

\* lines 126-132
Kwargs(a) ==
    LET k0 == Put(<<>>, "headers", Headers(a))
        k1 == IF a.form.type # "none" THEN Put(k0, "data", FormBuild(a.form)) ELSE k0
        k2 == IF a.json.type # "none" THEN Put(k1, "json", JsonBuild(a.json)) ELSE k1
    IN IF a.params.type # "none" THEN Put(k2, "params", ParamsBuild(a.params)) ELSE k2

KwargsInit ==
    /\ ClientInit
    /\ arg \in {[fn |-> "kwargs", form |-> f, json |-> j, params |-> p, reason |-> r, headers |-> h] :
                   f \in FormArgs, j \in JsonArgs, p \in ParamsArgs, r \in ReasonArgs,
                   h \in HeaderArgs}
    /\ ret = NotRun

\* request builds what it hands to self.session.request
BuildKwargs ==
    /\ arg.fn = "kwargs"
    /\ ~ret.done
    /\ ret' = [done |-> TRUE, kwargs |-> Kwargs(arg)]
    /\ UNCHANGED arg
    /\ UNCHANGED client

KwargsSpec == KwargsInit /\ [][BuildKwargs]_vars

\* ------------------------------------------------------------- claims
\* the calls of bucket b whose HTTP request is issued and not yet answered
InFlight(b) == {t \in Tasks : bucket[t] = b /\ pc[t] = "in_flight"}

\* a deferred release of bucket b's lock is scheduled
ReleasePending(b) == \E t \in Tasks : bucket[t] = b /\ timers[t] # NoTimer

\* C1: for every bucket key, at most one call is in its network-call phase
\* (request issued, response body not yet read) at any time.
C1_OneInFlightPerBucket ==
    \A b \in DOMAIN buckets : Cardinality(InFlight(b)) <= 1

\* C1 witness: one call is in its network phase while another call on the
\* same bucket waits for the lock.
C1_Witness ==
    \E t, u \in Tasks :
        /\ t # u /\ bucket[t] = bucket[u]
        /\ pc[t] = "in_flight" /\ pc[u] = "wait_lock"

\* C2 (as claimed): whenever a call has returned or raised, the bucket lock
\* it acquired has been released or its deferred release is scheduled: the
\* lock is free, or held by a later call, or waits for a call_later release.
C2_LockReleasedOnEveryExit ==
    \A t \in Tasks :
        (pc[t] = "done" /\ outcome[t].kind # "CancelledError")
            => \/ ~buckets[bucket[t]].locked
               \/ Holders(bucket[t]) # {}
               \/ ReleasePending(bucket[t])

\* C3 (as claimed): on a client that has received no globally-flagged 429 a
\* call passes the global gate at once: a call is suspended at the gate only
\* while another call backs off from a global 429.
C3_GateOpenWhenFresh ==
    \A t \in Tasks :
        pc[t] = "wait_global"
            => \E u \in Tasks \ {t} : pc[u] = "sleep" /\ data[u].global = "true"

\* the non-429 responses with X-Ratelimit-Remaining "0" and a Reset-After
ExhaustedResponses ==
    {r \in Responses : r.status # 429 /\ r.remaining = "0" /\ r.reset_after.present}

\* C4: a non-429 response with X-Ratelimit-Remaining "0" and Reset-After D
\* ends the call in the step that handles it (no wait), and until D ticks
\* have passed the bucket lock stays held with no call of that bucket past
\* its acquire.
C4_ExhaustedBucketDelaysNextCall ==
    /\ [](\A t \in Tasks :
            (pc[t] = "done" /\ outcome[t].kind \in {"Response", "HTTPException"} /\ window[t] > 0)
                => buckets[bucket[t]].locked /\ Holders(bucket[t]) = {})
    /\ [][\A t \in Tasks, r \in ExhaustedResponses :
            (pc[t] = "in_flight" /\ pc'[t] # "in_flight" /\ Receive(t, r))
                => (pc'[t] = "done" /\ outcome'[t] = FinalOutcome(r)
                    /\ window'[t] = r.reset_after.secs)]_vars

\* C4 witness: the call is done, its reset window has not started to run
\* down, and the next call on the bucket is queued on the lock.
C4_Witness ==
    \E t, u \in Tasks :
        /\ t # u /\ bucket[t] = bucket[u]
        /\ pc[t] = "done" /\ outcome[t].kind = "Response" /\ window[t] = MaxDelay
        /\ pc[u] = "wait_lock"

GlobalBackoff ==
    \E g \in Tasks : pc[g] = "sleep" /\ data[g].global = "true" /\ window[g] > 0

\* C6 (as claimed): while the retry_after of a globally-flagged 429 has not
\* elapsed, no call on any bucket issues an HTTP request.
C6_GlobalLimitSuspendsAllCalls ==
    [][GlobalBackoff => \A t \in Tasks : attempts'[t] <= attempts[t]]_vars

\* the rate-limit 429 responses whose payload is not flagged global
LocalRateLimits == {r \in Responses : IsRateLimit(r) /\ r.text.global # "true"}

\* C7: handling a 429 whose payload is not flagged global leaves the global
\* gate, every bucket lock, every deferred release and every other call as
\* they were; only the issuing call goes to sleep, for retry_after, and its
\* waking leaves the gate alone too.
C7_LocalLimitTouchesOnlyItsCall ==
    [][\A t \in Tasks :
          /\ \A r \in LocalRateLimits :
                (pc[t] = "in_flight" /\ pc'[t] # "in_flight" /\ Receive(t, r))
                    => /\ global_ratelimit' = global_ratelimit
                       /\ buckets' = buckets
                       /\ timers' = timers
                       /\ pc'[t] = "sleep" /\ sleepLeft'[t] = r.text.retry_after
                       /\ \A u \in Tasks \ {t} : pc'[u] = pc[u] /\ sleepLeft'[u] = sleepLeft[u]
          /\ (pc[t] = "sleep" /\ data[t].global # "true" /\ pc'[t] # "sleep")
                => /\ global_ratelimit' = global_ratelimit
                   /\ \A u \in Tasks \ {t} : pc'[u] = pc[u]]_vars

\* C7 witness: a call sleeps on a bucket-local 429 while a call on another
\* bucket has its request in flight and the gate is open.
C7_Witness ==
    \E t, u \in Tasks :
        /\ pc[t] = "sleep" /\ data[t].global = "false" /\ window[t] > 0
        /\ bucket[u] # bucket[t] /\ pc[u] = "in_flight"
        /\ global_ratelimit

\* the responses whose status is neither 429 nor in [200, 300)
OtherStatusResponses ==
    {r \in Responses : r.status # 429 /\ ~(200 <= r.status /\ r.status < 300)}

\* C8 (as claimed): a response whose status is neither 429 nor 2xx ends the
\* call with HTTPException carrying that status and the body, decoded when
\* it decodes and raw otherwise, and no further request is issued.
C8_OtherStatusRaisesHTTPException ==
    [][\A t \in Tasks, r \in OtherStatusResponses :
          (pc[t] = "in_flight" /\ pc'[t] # "in_flight" /\ Receive(t, r))
              => /\ pc'[t] = "done"
                 /\ outcome'[t] = HTTPException(r.status,
                                      [decoded |-> r.text.kind = "json", text |-> r.text])]_vars

\* the 429 responses whose body is not JSON
Undecodable429s == {r \in Responses : r.status = 429 /\ r.text.kind = "raw"}

\* C9: a 429 whose body is not JSON ends the call at once with
\* HTTPException(429, raw text); the bucket lock is free after the step, no
\* deferred release is scheduled, the call does not sleep, the gate is not
\* touched and no request follows.
C9_Undecodable429ReleasesAndRaises ==
    [][\A t \in Tasks, r \in Undecodable429s :
          (pc[t] = "in_flight" /\ pc'[t] # "in_flight" /\ Receive(t, r))
              => /\ pc'[t] = "done"
                 /\ outcome'[t] = HTTPException(429, [decoded |-> FALSE, text |-> r.text])
                 /\ ~buckets'[bucket[t]].locked
                 /\ timers'[t] = NoTimer
                 /\ sleepLeft'[t] = 0 /\ window'[t] = 0
                 /\ global_ratelimit' = global_ratelimit
                 /\ \A u \in Tasks : attempts'[u] <= attempts[u]]_vars

\* C9 witness: a call has raised HTTPException(429, raw text) and its
\* bucket's lock is free.
C9_Witness ==
    \E t \in Tasks :
        /\ pc[t] = "done"
        /\ outcome[t] = HTTPException(429, [decoded |-> FALSE, text |-> RawText])
        /\ ~buckets[bucket[t]].locked

\* C10 (as claimed): after a call is cancelled while it holds its bucket
\* lock, the lock is not left held: it is free, held by a later call, or
\* waits for a deferred release.
C10_CancelledCallReleasesLock ==
    \A t \in Tasks :
        outcome[t].kind = "CancelledError"
            => \/ ~buckets[bucket[t]].locked
               \/ Holders(bucket[t]) # {}
               \/ ReleasePending(bucket[t])

RECURSIVE ErrorsUnder(_, _)
\* the entries the claim asks for below a node reached by the keys `keys`:
\* one (path, (message, code)) per element of each `_errors` array, the path
\* being the keys joined with ":", children taken in order
ErrorsUnder(node, keys) ==
    LET children == IF node.type = "list" THEN ItemsList(node).items ELSE node.items
        Of(c) == IF c.k = "_errors"
                 THEN [n \in 1 .. Len(c.v.items) |->
                          <<Join(keys), <<c.v.items[n].items[1].v.s, c.v.items[n].items[2].v.s>>>>]
                 ELSE ErrorsUnder(c.v, Append(keys, c.k))
        Upto[i \in 0 .. Len(children)] ==
            IF i = 0 THEN <<>> ELSE Upto[i - 1] \o Of(children[i])
    IN IF node.type = "str" THEN <<>> ELSE Upto[Len(children)]

\* C11: flatten returns exactly one (path, (message, code)) entry per element
\* of every `_errors` array, the path being the keys and list indices from
\* the root to the node that carries the array joined with ":" (no leading
\* separator), in traversal order, repeats kept.
C11_FlattenOneEntryPerError ==
    ret.done => ret.value = ErrorsUnder(arg.d, <<>>)

\* C11 witness: {"embeds": [{"_errors": [{message: "bad url", code: "URL"}]}]}
\* has been flattened to [("embeds:0", ("bad url", "URL"))].
C11_Witness ==
    /\ arg.d = Dict(<<Item("embeds",
                   List(<<Dict(<<Item("_errors", List(<<ErrorEntry("bad url", "URL")>>))>>)>>))>>)
    /\ ret.done
    /\ ret.value = <<<<"embeds:0", <<"bad url", "URL">>>>>>

\* the parameters of a route, as a name -> value mapping
ParamSet(route) == {route.params[i] : i \in 1 .. Len(route.params)}

\* the names of a route's parameters
NameSet(route) == {route.params[i].k : i \in 1 .. Len(route.params)}

\* the parameters of a route with each value as the text str() gives
TextSet(route) == {<<route.params[i].k, route.params[i].v.s>> : i \in 1 .. Len(route.params)}

RECURSIVE HasColon(_)
\* the text holds the separator ":"
HasColon(text) ==
    IF Len(text) = 0 THEN FALSE
    ELSE Head(text) = ":" \/ HasColon(Tail(text))

\* C12 (as claimed): two routes with the same path template and the same
\* parameter values have equal bucket keys; two routes with the same path
\* template and differing parameter values have different bucket keys,
\* unless their values read the same as text.
C12_BucketKeyEqualIffSameValues ==
    (ret.done /\ arg.a.path = arg.b.path)
        => /\ ParamSet(arg.a) = ParamSet(arg.b) => ret.a = ret.b
           /\ TextSet(arg.a) # TextSet(arg.b) => ret.a # ret.b

\* C12 (amended): two routes with the same path template and the same
\* parameter values have equal bucket keys; two routes with the same path
\* template and the same parameter names, some value of which reads
\* differently as text, have different bucket keys provided no value's text
\* holds ":".
C12_BucketKeyDiffersWithoutSeparator ==
    (ret.done /\ arg.a.path = arg.b.path)
        => /\ ParamSet(arg.a) = ParamSet(arg.b) => ret.a = ret.b
           /\ (/\ NameSet(arg.a) = NameSet(arg.b)
               /\ TextSet(arg.a) # TextSet(arg.b)
               /\ \A x \in TextSet(arg.a) \cup TextSet(arg.b) : ~HasColon(x[2]))
                 => ret.a # ret.b

\* C12 witness: the keys of two routes on the message template whose values
\* are swapped have been computed and differ.
C12_Witness ==
    /\ ret.done
    /\ arg.a = Route("GET", MessagePath,
                     <<Item("message_id", Integer("2")), Item("channel_id", Integer("1"))>>)
    /\ arg.b = Route("GET", MessagePath,
                     <<Item("channel_id", Integer("2")), Item("message_id", Integer("1"))>>)
    /\ ret.a = "1:2:/channels/{channel_id}/messages/{message_id}"
    /\ ret.b = "2:1:/channels/{channel_id}/messages/{message_id}"

\* C13 (as claimed): when request is given both a form and a JSON payload,
\* the Content-Type is the form's, the JSON is not handed to the HTTP call
\* as a body of its own but is a payload_json field of the form, and the
\* HTTP call gets exactly one body.
C13_FormTakesPrecedenceOverJson ==
    (ret.done /\ arg.form.type # "none" /\ arg.json.type # "none")
        => /\ ret.kwargs["headers"]["Content-Type"] = "multipart/form-data"
           /\ "json" \notin DOMAIN ret.kwargs
           /\ "data" \in DOMAIN ret.kwargs
           /\ \E i \in 1 .. Len(ret.kwargs["data"].fields) :
                 /\ ret.kwargs["data"].fields[i].name = "payload_json"
                 /\ ret.kwargs["data"].fields[i].value = dumps(arg.json.inner)

\* the path templates as literal text and placeholders
Segments(path) ==
    IF path = ChannelPath THEN <<[lit |-> "/channels/", name |-> "channel_id"]>>
    ELSE IF path = MessagePath
    THEN <<[lit |-> "/channels/", name |-> "channel_id"],
           [lit |-> "/messages/", name |-> "message_id"]>>
    ELSE <<[lit |-> path, name |-> ""]>>

\* the text of the template made of these segments
TemplateOf(segs) ==
    LET upto[n \in 0 .. Len(segs)] ==
            IF n = 0 THEN ""
            ELSE upto[n - 1] \o segs[n].lit
                 \o (IF segs[n].name = "" THEN "" ELSE "{" \o segs[n].name \o "}")
    IN upto[Len(segs)]

\* the value given for parameter `name` of the route, as text
ValueOf(route, name) ==
    LET S == {x \in TextSet(route) : x[1] = name}
    IN (CHOOSE x \in S : TRUE)[2]

\* the segments with each placeholder replaced by the route's value for it
Substituted(route, segs) ==
    LET upto[n \in 0 .. Len(segs)] ==
            IF n = 0 THEN ""
            ELSE upto[n - 1] \o segs[n].lit
                 \o (IF segs[n].name = "" THEN "" ELSE ValueOf(route, segs[n].name))
    IN upto[Len(segs)]

\* the placeholders of the route's template
Placeholders(route) ==
    {Segments(route.path)[n].name : n \in 1 .. Len(Segments(route.path))} \ {""}

RECURSIVE HasBrace(_)
\* the text holds "{" or "}"
HasBrace(text) ==
    IF Len(text) = 0 THEN FALSE
    ELSE Head(text) \in {"{", "}"} \/ HasBrace(Tail(text))

\* C14: when every placeholder of the path template has a parameter, url is
\* the base URL followed by the template with each placeholder replaced by
\* its parameter's value, and no placeholder is left in it; when some
\* placeholder has no parameter, computing url fails and yields no URL.
C14_UrlSubstitutesOrFails ==
    ret.done
        => /\ TemplateOf(Segments(arg.route.path)) = arg.route.path
           /\ IF Placeholders(arg.route) \subseteq NameSet(arg.route)
              THEN /\ ret.url.ok
                   /\ ret.url.value =
                        "https://discord.com/api/v10"
                            \o Substituted(arg.route, Segments(arg.route.path))
                   /\ ~HasBrace(ret.url.value)
              ELSE /\ ~ret.url.ok
                   /\ ret.url.value = "KeyError"

\* C14 witness: the url of the message template with channel_id 1 and
\* message_id "2" (and an unused guild_id) has been computed.
C14_Witness ==
    /\ ret.done
    /\ arg.route.path = MessagePath
    /\ TextSet(arg.route) = {<<"channel_id", "1">>, <<"guild_id", "3">>, <<"message_id", "2">>}
    /\ ret.url = [ok |-> TRUE, value |-> "https://discord.com/api/v10/channels/1/messages/2"]

\* C15: from a call's first HTTP attempt until its terminal outcome, its
\* 429 sleeps included, the bucket lock is held and the call is the only
\* one of its bucket past the acquire; no other call with the same bucket
\* key issues an HTTP request meanwhile.
C15_LockHeldAcrossRetries ==
    /\ [](\A t \in Tasks :
            pc[t] \in {"in_flight", "sleep"}
                => buckets[bucket[t]].locked /\ Holders(bucket[t]) = {t})
    /\ [][\A t, u \in Tasks :
            (t # u /\ pc[t] \in {"in_flight", "sleep"} /\ bucket'[u] = bucket[t])
                => attempts'[u] <= attempts[u]]_vars

\* C15 witness: a call sleeps on its second 429 while another call with the
\* same bucket key is queued on the lock.
C15_Witness ==
    \E t, u \in Tasks :
        /\ t # u /\ bucket[t] = bucket[u]
        /\ pc[t] = "sleep" /\ n429[t] = 2 /\ attempts[t] = 2
        /\ pc[u] = "wait_lock"

\* C16 (as claimed): while any call is still backing off from a
\* globally-flagged 429 whose retry_after has not elapsed, the global gate
\* reads as closed: no other call's wake-up reopens it before that.
C16_GateClosedUntilLastGlobalBackoff ==
    GlobalBackoff => ~global_ratelimit

\* C17: after a 429 whose payload reports retry_after D, global or not, the
\* call issues its next HTTP request only once D ticks have passed since
\* that response.
C17_RetryNotBeforeRetryAfter ==
    [][\A t \in Tasks :
          (attempts[t] >= 1 /\ attempts'[t] > attempts[t]) => window[t] = 0]_vars

\* C17 witness: a call has its second request in flight, the retry_after of
\* the 429 it received having run out.
C17_Witness ==
    \E t \in Tasks :
        pc[t] = "in_flight" /\ attempts[t] = 2 /\ n429[t] = 1 /\ window[t] = 0

\* the calls queued on the lock of bucket b
Queued(b) == {buckets[b].waiters[i] : i \in 1 .. Len(buckets[b].waiters)}

\* C18: a key once in the lock table stays in it; every call that has
\* started has its key in the table; the calls waiting for a bucket are
\* exactly the queue of that key's one lock, each once, and at most one call
\* is past the acquire of it, the lock then being held.
C18_LockTableOnlyGrows ==
    /\ [][DOMAIN buckets \subseteq DOMAIN buckets']_vars
    /\ [](/\ \A t \in Tasks : pc[t] # "idle" => bucket[t] \in DOMAIN buckets
          /\ \A b \in DOMAIN buckets :
                /\ Queued(b) = {t \in Tasks : bucket[t] = b /\ pc[t] = "wait_lock"}
                /\ Cardinality(Queued(b)) = Len(buckets[b].waiters)
                /\ Cardinality(Holders(b)) <= 1
                /\ Holders(b) # {} => buckets[b].locked)

\* C18 witness: two calls that both came first to a key share its one lock:
\* the table has that key only, one call holds the lock and the other is
\* its only waiter.
C18_Witness ==
    \E t, u \in Tasks :
        /\ t # u
        /\ DOMAIN buckets = {bucket[t]}
        /\ bucket[u] = bucket[t]
        /\ pc[t] = "in_flight" /\ pc[u] = "wait_lock"
        /\ buckets[bucket[t]] = [locked |-> TRUE, waiters |-> <<u>>]

\* C19: lock.release() is never called on a lock that is not held; a
\* deferred release waits only on a lock that is held for a call that has
\* ended, no other call being past the acquire of it and no second release
\* being scheduled for it; and a lock becomes free only by the release of
\* the call that holds it or by the deferred release scheduled for it.
C19_ReleaseOnlyWhileHeld ==
    /\ [](/\ ~releaseError
          /\ \A t \in Tasks :
                timers[t] # NoTimer
                    => /\ pc[t] = "done"
                       /\ buckets[bucket[t]].locked
                       /\ Holders(bucket[t]) = {}
                       /\ \A u \in Tasks \ {t} : bucket[u] = bucket[t] => timers[u] = NoTimer)
    /\ [][\A b \in DOMAIN buckets :
            (buckets[b].locked /\ ~buckets'[b].locked)
                => \/ \E t \in Tasks : Holders(b) = {t} /\ pc'[t] = "done" /\ timers' = timers
                   \/ \E t \in Tasks : /\ bucket[t] = b /\ Holders(b) = {}
                                       /\ timers[t] = 0 /\ timers'[t] = NoTimer]_vars

\* C19 witness: the deferred release of a call that has returned is due,
\* the lock it will release is still held and the next call of the bucket
\* waits for it.
C19_Witness ==
    \E t, u \in Tasks :
        /\ t # u /\ bucket[t] = bucket[u]
        /\ pc[t] = "done" /\ outcome[t].kind = "Response" /\ timers[t] = 0
        /\ buckets[bucket[t]] = [locked |-> TRUE, waiters |-> <<u>>]
        /\ ~releaseError

\* C20 (as claimed): under fair scheduling and a server that answers every
\* request, every call that has been started eventually ends, with a
\* Response, an HTTPException or TooManyRetries.
C20_EveryCallTerminates ==
    \A t \in Tasks :
        (pc[t] # "idle")
            ~> (pc[t] = "done"
                /\ outcome[t].kind \in {"Response", "HTTPException", "TooManyRetries"})

====
